---- MODULE Spec2Model ----
(***************************************************************************)
(* Model of the form-submission mirror (client/services/googleSheets.ts in *)
(* its direct and its proxy variant) and of the image upload routes        *)
(* (server/routes/upload.ts).                                              *)
(*                                                                         *)
(* Four specifications share the module:                                   *)
(*   SpecRow         the row built by each sync method, as a function of   *)
(*                   the submission;                                       *)
(*   SpecCombinator  withGoogleSheetsSync around a primary operation;      *)
(*   SpecService     direct calls of the public sync methods and of the    *)
(*                   append operation;                                     *)
(*   SpecUpload      POST and DELETE /api/upload/image over the uploads    *)
(*                   directory.                                            *)
(***************************************************************************)
EXTENDS Integers, Sequences, FiniteSets, TLC

VARIABLES
    \* --- row mapping (SpecRow)
    submission,     \* the submission handed to a sync method
    mapped,         \* what building its row produced
    \* --- sync service and combinator (SpecCombinator, SpecService)
    variant,        \* which googleSheets.ts is deployed: "direct" or "proxy"
    config,         \* the module-level config object (spreadsheetId, apiKey)
    pc,             \* per call: where the caller's operation stands
    primary,        \* per call: the promise of supabaseOperation()
    syncOp,         \* per call: the sync operation that was passed
    sync,           \* per call: the promise of syncOperation()
    outcome,        \* per call: what withGoogleSheetsSync gave its caller
    checked,        \* per call: result of the isConfigured() gate, if it ran
    net,            \* per call: the append request put on the network
    remote,         \* per call: what the network answered, as far as read
    probe,          \* per call: the promise of the proxy's isConfigured()
    log,            \* console lines written, as <<call, line>>
    \* --- upload routes (SpecUpload)
    disk,           \* the files and directories under process.cwd()
    nextId,         \* stands for Date.now() and Math.random() in filenames
    uploads,        \* per upload request: how far it is, and its response
    lastDelete,     \* the delete request handled last, with what it did
    removed         \* paths deleteImage has unlinked so far

rowVars == <<submission, mapped>>
syncVars == <<variant, config, pc, primary, syncOp, sync, outcome, checked,
              net, remote, probe, log>>
uploadVars == <<disk, nextId, uploads, lastDelete, removed>>
vars == <<rowVars, syncVars, uploadVars>>

(***************************************************************************)
(* JavaScript values.  A field of a submission, a cell of a row and the    *)
(* url of a delete request are JavaScript values; only their type and, for *)
(* strings, their text matter here.                                        *)
(***************************************************************************)
JsUndefined == [type |-> "undefined"]
JsStr(s) == [type |-> "string", value |-> s]
\* A string that the model has to look into (a url, a path) is kept as the
\* sequence of its pieces: each "/" and each run of other characters.
JsText(pieces) == [type |-> "string", pieces |-> pieces]
JsNum(n) == [type |-> "number", num |-> n]
JsBool(b) == [type |-> "boolean", bool |-> b]

\* ToBoolean of the values above: "", 0 and undefined are falsy.
Truthy(v) ==
    CASE v.type = "undefined" -> FALSE
      [] v.type = "string" ->
            IF "pieces" \in DOMAIN v THEN v.pieces # <<>> ELSE v.value # ""
      [] v.type = "number" -> v.num # 0
      [] v.type = "boolean" -> v.bool
      [] OTHER -> TRUE

\* x || ""
OrEmpty_Identity(v) == v

OrEmpty(v) == IF Truthy(v) THEN v ELSE JsStr("")

(***************************************************************************)
(* Dates.  created_at / subscribed_at arrive as text.  A timestamp text is *)
(* kept as the fields it is written with; TimestampText gives the text.    *)
(*   date    YYYY-MM-DD                    (read as UTC midnight)          *)
(*   utc     YYYY-MM-DDTHH:mm:ssZ                                          *)
(*   utcms   YYYY-MM-DDTHH:mm:ss.sssZ      (the canonical form)            *)
(*   offset  YYYY-MM-DDTHH:mm:ss+HH:MM     (or -HH:MM)                     *)
(*   text    something Date cannot parse                                   *)
(* The year is written with four digits, month to second with two, the     *)
(* milliseconds with three; fields that do not fit are no timestamp text.  *)
(***************************************************************************)
Pad2(n) == IF n < 10 THEN "0" \o ToString(n) ELSE ToString(n)
Pad3(n) == IF n < 10 THEN "00" \o ToString(n)
           ELSE IF n < 100 THEN "0" \o ToString(n) ELSE ToString(n)
Pad4(n) == IF n < 10 THEN "000" \o ToString(n)
           ELSE IF n < 100 THEN "00" \o ToString(n)
           ELSE IF n < 1000 THEN "0" \o ToString(n) ELSE ToString(n)
Pad6(n) == IF n < 10000 THEN "00" \o Pad4(n)
           ELSE IF n < 100000 THEN "0" \o ToString(n) ELSE ToString(n)

\* The year as toISOString writes it: four digits for 0 to 9999, otherwise
\* a sign and six digits.
YearText(y) ==
    IF y < 0 THEN "-" \o Pad6(-y)
    ELSE IF y > 9999 THEN "+" \o Pad6(y)
    ELSE Pad4(y)

DateText(y, mo, d) == Pad4(y) \o "-" \o Pad2(mo) \o "-" \o Pad2(d)
ClockText(h, mi, s) == Pad2(h) \o ":" \o Pad2(mi) \o ":" \o Pad2(s)

Abs(n) == IF n < 0 THEN -n ELSE n

\* The fields fit the digits of the form they are written in.
Written(ts) ==
    /\ ts.form \in {"date", "utc", "utcms", "offset"}
    /\ ts.y \in 0 .. 9999
    /\ ts.mo \in 0 .. 99
    /\ ts.d \in 0 .. 99
    /\ ts.form # "date" =>
          (ts.h \in 0 .. 99 /\ ts.mi \in 0 .. 99 /\ ts.s \in 0 .. 99)
    /\ ts.form = "utcms" => ts.ms \in 0 .. 999
    /\ ts.form = "offset" => Abs(ts.off) \div 60 \in 0 .. 99

TimestampText(ts) ==
    CASE ~Written(ts) -> "not-a-date"
      [] ts.form = "date" -> DateText(ts.y, ts.mo, ts.d)
      [] ts.form = "utc" ->
            DateText(ts.y, ts.mo, ts.d) \o "T" \o ClockText(ts.h, ts.mi, ts.s) \o "Z"
      [] ts.form = "utcms" ->
            DateText(ts.y, ts.mo, ts.d) \o "T" \o ClockText(ts.h, ts.mi, ts.s)
                \o "." \o Pad3(ts.ms) \o "Z"
      [] ts.form = "offset" ->
            DateText(ts.y, ts.mo, ts.d) \o "T" \o ClockText(ts.h, ts.mi, ts.s)
                \o (IF ts.off < 0 THEN "-" ELSE "+")
                \o Pad2(Abs(ts.off) \div 60) \o ":" \o Pad2(Abs(ts.off) % 60)

MsPerDay == 24 * 60 * 60 * 1000

\* Days from 1970-01-01 to the civil date y-mo-d (proleptic Gregorian).
DaysFromCivil(y, mo, d) ==
    LET yy == IF mo <= 2 THEN y - 1 ELSE y
        era == yy \div 400
        yoe == yy - era * 400
        mp == IF mo > 2 THEN mo - 3 ELSE mo + 9
        doy == (153 * mp + 2) \div 5 + d - 1
        doe == yoe * 365 + yoe \div 4 - yoe \div 100 + doy
    IN  era * 146097 + doe - 719468

\* The civil date of day number z, as <<y, mo, d>>.
CivilFromDays(z) ==
    LET zz == z + 719468
        era == zz \div 146097
        doe == zz - era * 146097
        yoe == (doe - doe \div 1460 + doe \div 36524 - doe \div 146096) \div 365
        doy == doe - (365 * yoe + yoe \div 4 - yoe \div 100)
        mp == (5 * doy + 2) \div 153
        d == doy - (153 * mp + 2) \div 5 + 1
        mo == IF mp < 10 THEN mp + 3 ELSE mp - 9
        y == yoe + era * 400 + (IF mo <= 2 THEN 1 ELSE 0)
    IN  <<y, mo, d>>

\* A Date's time value: the UTC day number and the millisecond in that day,
\* or NaN for an Invalid Date.
NaN == [nan |-> TRUE]
TimeValue(day, msOfDay) == [nan |-> FALSE, day |-> day, ms |-> msOfDay]

\* The date-time parser accepts a timestamp text whose month is 1 to 12 and
\* whose day is 1 to 31 (a day past the end of its month counts on into the
\* next month), whose time is 00:00:00 to 23:59:59 or exactly 24:00:00, and
\* whose offset is at most 23:59.  Only the fields the form writes are read.
Parses(ts) ==
    /\ Written(ts)
    /\ ts.mo \in 1 .. 12
    /\ ts.d \in 1 .. 31
    /\ ts.form # "date" =>
          \/ ts.h \in 0 .. 23 /\ ts.mi \in 0 .. 59 /\ ts.s \in 0 .. 59
          \/ /\ ts.h = 24 /\ ts.mi = 0 /\ ts.s = 0
             /\ ts.form = "utcms" => ts.ms = 0
    /\ ts.form = "offset" => Abs(ts.off) \div 60 \in 0 .. 23

\* new Date(v) for v undefined or a timestamp text.
NewDate(v) ==
    IF v.type # "string" THEN NaN
    ELSE IF ~Parses(v.value) THEN NaN
    ELSE LET ts == v.value
             day == DaysFromCivil(ts.y, ts.mo, ts.d)
             local == IF ts.form = "date" THEN 0
                      ELSE ((ts.h * 60 + ts.mi) * 60 + ts.s) * 1000
                             + (IF ts.form = "utcms" THEN ts.ms ELSE 0)
             utc == local - (IF ts.form = "offset" THEN ts.off * 60000 ELSE 0)
         IN  TimeValue(day + utc \div MsPerDay, utc % MsPerDay)

\* Date.prototype.toISOString: the canonical text, or a RangeError.
RangeError == [threw |-> "RangeError"]
toISOString(t) ==
    IF t.nan THEN RangeError
    ELSE LET c == CivilFromDays(t.day)
             h == t.ms \div 3600000
             mi == (t.ms \div 60000) % 60
             s == (t.ms \div 1000) % 60
         IN  JsStr(YearText(c[1]) \o "-" \o Pad2(c[2]) \o "-" \o Pad2(c[3])
                       \o "T" \o ClockText(h, mi, s)
                       \o "." \o Pad3(t.ms % 1000) \o "Z")

Threw(v) == "threw" \in DOMAIN v

(***************************************************************************)
(* Submissions.  A submission is the object handed to a sync method: its   *)
(* form and, per field, a JavaScript value.                                *)
(***************************************************************************)
Forms == {"Contact", "JobApplication", "GetStartedRequest", "ResumeUpload",
          "NewsletterSubscription"}

\* The fields each sync method's parameter type declares, and which of them
\* are optional (declared with "?").
RequiredFields(form) ==
    CASE form = "Contact" -> {"name", "email", "message"}
      [] form = "JobApplication" ->
            {"full_name", "email", "phone", "position", "experience", "status"}
      [] form = "GetStartedRequest" -> {"first_name", "last_name", "email"}
      [] form = "ResumeUpload" -> {"full_name", "email"}
      [] form = "NewsletterSubscription" -> {"email"}

OptionalFields(form) ==
    CASE form = "Contact" -> {"phone", "company"}
      [] form = "JobApplication" -> {"cover_letter", "resume_url"}
      [] form = "GetStartedRequest" -> {"company", "phone", "job_title", "message"}
      [] form = "ResumeUpload" ->
            {"phone", "location", "position_interested", "experience_level",
             "skills", "cover_letter", "linkedin_url", "portfolio_url",
             "resume_url"}
      [] form = "NewsletterSubscription" -> {}

TimestampField(form) ==
    IF form = "NewsletterSubscription" THEN "subscribed_at" ELSE "created_at"

\* --- the five row builders, cell by cell as the source lists them
syncContactCells(d) ==
    << d.name, d.email, OrEmpty(d.phone), OrEmpty(d.company), d.message >>

syncJobApplicationCells(d) ==
    << d.full_name, d.email, d.phone, d.position, d.experience,
       OrEmpty(d.cover_letter), OrEmpty(d.resume_url), d.status >>

syncGetStartedRequestCells(d) ==
    << d.first_name, d.last_name, d.email, OrEmpty(d.company), OrEmpty(d.phone),
       OrEmpty(d.job_title), OrEmpty(d.message) >>

syncResumeUploadCells(d) ==
    << d.full_name, d.email, OrEmpty(d.phone), OrEmpty(d.location),
       OrEmpty(d.position_interested), OrEmpty(d.experience_level),
       OrEmpty(d.skills), OrEmpty(d.cover_letter), OrEmpty(d.linkedin_url),
       OrEmpty(d.portfolio_url), OrEmpty(d.resume_url) >>

syncNewsletterSubscriptionCells(d) == << d.email >>

\* The first cell: new Date(created_at).toISOString().
TimestampCell(form, d) == toISOString(NewDate(d[TimestampField(form)]))

\* const values = [[ ... ]] of the sync method for `form`: the two-dimensional
\* array holding the one row, or the RangeError its first cell threw.
BuildValues(form, d) ==
    LET first == TimestampCell(form, d)
        rest == CASE form = "Contact" -> syncContactCells(d)
                  [] form = "JobApplication" -> syncJobApplicationCells(d)
                  [] form = "GetStartedRequest" -> syncGetStartedRequestCells(d)
                  [] form = "ResumeUpload" -> syncResumeUploadCells(d)
                  [] form = "NewsletterSubscription" ->
                        syncNewsletterSubscriptionCells(d)
    IN  IF Threw(first) THEN first ELSE [values |-> << <<first>> \o rest >>]

\* config.sheetNames
SheetName(form) ==
    CASE form = "Contact" -> "Contacts"
      [] form = "JobApplication" -> "Job Applications"
      [] form = "GetStartedRequest" -> "Get Started Requests"
      [] form = "ResumeUpload" -> "Resume Uploads"
      [] form = "NewsletterSubscription" -> "Newsletter Subscribers"

(***************************************************************************)
(* Inputs of the row mapping.                                              *)
(***************************************************************************)
Stamp(form, y, mo, d, h, mi, s, ms, off) ==
    [form |-> form, y |-> y, mo |-> mo, d |-> d, h |-> h, mi |-> mi, s |-> s,
     ms |-> ms, off |-> off]

ValidTimestamps ==
    { Stamp("utc", 2024, 1, 1, 0, 0, 0, 0, 0),
      Stamp("date", 2024, 2, 29, 0, 0, 0, 0, 0),
      Stamp("utcms", 2023, 12, 31, 23, 59, 59, 999, 0),
      Stamp("offset", 2024, 3, 1, 0, 30, 0, 0, 330),
      Stamp("offset", 2023, 12, 31, 20, 0, 0, 0, -480),
      Stamp("offset", 9999, 12, 31, 23, 59, 59, 0, -60) }

InvalidTimestamp == Stamp("text", 0, 0, 0, 0, 0, 0, 0, 0)

\* Texts in a timestamp form that Date does not accept.
InvalidTimestamps ==
    { InvalidTimestamp,
      Stamp("date", 2024, 13, 1, 0, 0, 0, 0, 0),
      Stamp("utc", 2024, 1, 1, 23, 60, 0, 0, 0) }

TimestampValues ==
    {JsStr(ts) : ts \in ValidTimestamps \cup InvalidTimestamps} \cup {JsUndefined}

\* A field's text when it is filled in: every field has a text of its own,
\* so that a cell in the wrong place shows.
FieldText(f) == JsStr("<" \o f \o ">")

\* The submission of `form` with timestamp value `t` whose optional fields in
\* `filled` are filled in, those in `empty` are "", and the others undefined;
\* the required fields are filled in.
MakeSubmission(form, t, filled, empty) ==
    [form |-> form,
     data |-> [f \in RequiredFields(form) \cup OptionalFields(form)
                       \cup {TimestampField(form)} |->
                 IF f = TimestampField(form) THEN t
                 ELSE IF f \in filled \/ f \in RequiredFields(form) THEN FieldText(f)
                 ELSE IF f \in empty THEN JsStr("")
                 ELSE JsUndefined]]

NotMapped == [state |-> "not mapped"]

InitRow ==
    /\ \E form \in Forms, t \in TimestampValues :
         \E filled \in SUBSET OptionalFields(form) :
            \E empty \in SUBSET (OptionalFields(form) \ filled) :
               submission = MakeSubmission(form, t, filled, empty)
    /\ mapped = NotMapped

\* A sync method builds its values from the submission.
MapSubmission ==
    /\ mapped = NotMapped
    /\ mapped' = BuildValues(submission.form, submission.data)
    /\ UNCHANGED submission

(***************************************************************************)
(* Promises, as their state.                                               *)
(***************************************************************************)
NotStarted == [st |-> "none"]
Pending == [st |-> "pending"]
Fulfilled(v) == [st |-> "fulfilled", value |-> v]
Rejected(e) == [st |-> "rejected", error |-> e]
\* A call that threw before it could return a promise.
ThrewSync(e) == [st |-> "threw", error |-> e]

(***************************************************************************)
(* The Sheet Client.                                                       *)
(***************************************************************************)
Variants == {"direct", "proxy"}

Configs == [spreadsheetId : {"", "sheet-1"}, apiKey : {"", "key-1"}]

\* direct variant: !!(config.spreadsheetId && config.apiKey)
isConfigured(cfg) == cfg.spreadsheetId # "" /\ cfg.apiKey # ""

NoRequest == [method |-> "none"]

\* What starting an operation leaves behind: the result of the configuration
\* gate ("none" when no gate ran), the request put on the network, the state
\* of the returned promise, and the console lines written.
Started(gate, request, promise, lines) ==
    [gate |-> gate, request |-> request, promise |-> promise, lines |-> lines]

\* direct variant, appendToSheet up to its first await: the gate, then fetch.
appendToSheetStart(cfg, sheetName, values) ==
    IF ~isConfigured(cfg)
    THEN Started("false", NoRequest, Fulfilled(JsBool(FALSE)),
                 {"warn: Google Sheets not configured. Skipping sync."})
    ELSE Started("true",
                 [method |-> "POST",
                  url |-> <<"https://sheets.googleapis.com/v4/spreadsheets",
                            cfg.spreadsheetId, "values", sheetName, ":append">>,
                  key |-> cfg.apiKey,
                  body |-> values],
                 Pending, {})

\* proxy variant, syncToServer up to its first await: fetch, with no gate.
syncToServerStart(endpoint, data) ==
    Started("none",
            [method |-> "POST", url |-> <<"/api/sync", endpoint>>, body |-> data],
            Pending, {})

\* --- what the network can answer
\* fetch rejects (NetworkError) or resolves with a response, whose body is
\* read only by response.json(): unread until then, afterwards either
\* unparseable or the parsed value.
NetworkError == [kind |-> "networkError"]
BodyUnread == [parse |-> "unread"]
Unparseable == [parse |-> "fail"]
Json(j) == [parse |-> "ok", json |-> j]
Response(status, body) == [kind |-> "response", status |-> status, body |-> body]
ResponseOk(a) == a.status >= 200 /\ a.status <= 299

\* Statuses and bodies of the Google Sheets API (direct variant).
DirectStatuses == {200, 400, 401}
DirectBodies ==
    { Unparseable,
      Json([error |-> [message |-> "PERMISSION_DENIED"]]),
      Json([error |-> [message |-> ""]]),
      Json([error |-> [code |-> "400"]]) }

\* Statuses and bodies of the backend proxy's sync routes (proxy variant);
\* [null |-> TRUE] is a body that parses to null, and a member the body lacks
\* is "undefined".
ProxyStatuses == {200, 401, 500}
ProxyBodies ==
    { Unparseable,
      Json([null |-> TRUE]),
      Json([success |-> "true", synced |-> "true", error |-> "undefined"]),
      Json([success |-> "true", synced |-> "false", error |-> "undefined"]),
      Json([success |-> "true", synced |-> "undefined", error |-> "undefined"]),
      Json([success |-> "false", synced |-> "false", error |-> "quota exceeded"]),
      Json([success |-> "false", synced |-> "undefined", error |-> "undefined"]) }

\* Bodies of the proxy's /api/sync/status route; [absent |-> TRUE] is a body
\* without the member `data`.
StatusBodies ==
    { Unparseable,
      Json([null |-> TRUE]),
      Json([success |-> "true", data |-> [configured |-> "true"]]),
      Json([success |-> "true", data |-> [configured |-> "false"]]),
      Json([success |-> "true", data |-> [absent |-> TRUE]]),
      Json([success |-> "false", data |-> [absent |-> TRUE]]),
      Json([success |-> "undefined", data |-> [configured |-> "true"]]) }

Statuses(v) == IF v = "direct" THEN DirectStatuses ELSE ProxyStatuses
Bodies(v) == IF v = "direct" THEN DirectBodies ELSE ProxyBodies

\* What `await fetch(...)` can give.
FetchResults(v) ==
    {NetworkError} \cup { Response(status, BodyUnread) : status \in Statuses(v) }

\* Outcome of a try block: a return, a throw, or a stop at a further await.
Returns(v, lines) == [ret |-> v, lines |-> lines]
Throws(e) == [threw |-> e]
AwaitsBody == [awaits |-> "response.json()"]
Awaits(r) == "awaits" \in DOMAIN r

\* errorData?.error?.message || "Unknown error", with
\* errorData = await response.json().catch(() => null)
ErrorMessage(body) ==
    IF /\ body.parse = "ok"
       /\ "error" \in DOMAIN body.json
       /\ "message" \in DOMAIN body.json.error
       /\ body.json.error.message # ""
    THEN body.json.error.message
    ELSE "Unknown error"

\* The console lines of the source, without their leading pictograph.
KeyCannotWrite ==
    { "warn: Google Sheets API Key cannot write data. Read-only access available.",
      "warn: For write access, configure OAuth2 or service account authentication." }
SyncedLine == "log: Successfully synced to Google Sheets"
SyncErrorLine == "error: Error syncing to Google Sheets"

\* direct variant: the try block of appendToSheet from the moment fetch has
\* settled with a.  A response that is not ok has its body read first, a
\* second await; one that is ok is not read at all.
appendToSheetTry(a) ==
    IF a.kind = "networkError" THEN Throws("TypeError: Failed to fetch")
    ELSE IF ~ResponseOk(a)
         THEN IF a.body.parse = "unread" THEN AwaitsBody
              ELSE IF a.status = 401
                   THEN Returns(JsBool(FALSE), KeyCannotWrite)
                   ELSE Throws("Google Sheets API error: " \o ToString(a.status)
                                   \o " - " \o ErrorMessage(a.body))
         ELSE Returns(JsBool(TRUE), {SyncedLine})

\* direct variant: the promise of appendToSheet after the catch block.
appendToSheetSettle_NoCatch(a) ==
    LET r == appendToSheetTry(a)
    IN  IF Awaits(r) THEN [promise |-> Pending, lines |-> {}]
        ELSE IF Threw(r) THEN [promise |-> Rejected(r.threw), lines |-> {}]
        ELSE [promise |-> Fulfilled(r.ret), lines |-> r.lines]

appendToSheetSettle(a) ==
    LET r == appendToSheetTry(a)
    IN  IF Awaits(r) THEN [promise |-> Pending, lines |-> {}]
        ELSE IF Threw(r)
        THEN [promise |-> Fulfilled(JsBool(FALSE)), lines |-> {SyncErrorLine}]
        ELSE [promise |-> Fulfilled(r.ret), lines |-> r.lines]

\* A member of a parsed body as a JavaScript value.
Member(text) ==
    CASE text = "undefined" -> JsUndefined
      [] text = "true" -> JsBool(TRUE)
      [] text = "false" -> JsBool(FALSE)
      [] OTHER -> JsStr(text)

\* proxy variant: the try block of syncToServer from the moment fetch has
\* settled with a.  Only the body of an ok response is read, a second await.
syncToServerTry(a) ==
    IF a.kind = "networkError" THEN Throws("TypeError: Failed to fetch")
    ELSE IF ~ResponseOk(a) THEN Throws("Sync failed: " \o ToString(a.status))
    ELSE IF a.body.parse = "unread" THEN AwaitsBody
    ELSE IF a.body.parse = "fail" THEN Throws("SyntaxError: Unexpected token")
    ELSE IF "null" \in DOMAIN a.body.json
         THEN Throws("TypeError: Cannot read properties of null")
    ELSE IF Truthy(Member(a.body.json.success))
         THEN Returns(Member(a.body.json.synced), {SyncedLine})
         ELSE Throws(IF Truthy(Member(a.body.json.error))
                     THEN a.body.json.error ELSE "Sync failed")

\* proxy variant: the promise of syncToServer after the catch block.
syncToServerSettle(a) ==
    LET r == syncToServerTry(a)
    IN  IF Awaits(r) THEN [promise |-> Pending, lines |-> {}]
        ELSE IF Threw(r)
        THEN [promise |-> Fulfilled(JsBool(FALSE)), lines |-> {SyncErrorLine}]
        ELSE [promise |-> Fulfilled(r.ret), lines |-> r.lines]

\* The append operation of variant v, resumed with what it awaited.
AppendSettle(v, a) ==
    IF v = "direct" THEN appendToSheetSettle(a) ELSE syncToServerSettle(a)

\* proxy variant: the try block of isConfigured from the moment its fetch of
\* /api/sync/status has settled with a:  result.success && result.data.configured
isConfiguredTry(a) ==
    IF a.kind = "networkError" THEN Throws("TypeError: Failed to fetch")
    ELSE IF ~ResponseOk(a) THEN Returns(JsBool(FALSE), {})
    ELSE IF a.body.parse = "unread" THEN AwaitsBody
    ELSE IF a.body.parse = "fail" THEN Throws("SyntaxError: Unexpected token")
    ELSE IF "null" \in DOMAIN a.body.json
         THEN Throws("TypeError: Cannot read properties of null")
    ELSE IF ~Truthy(Member(a.body.json.success))
         THEN Returns(Member(a.body.json.success), {})
    ELSE IF "absent" \in DOMAIN a.body.json.data
         THEN Throws("TypeError: Cannot read properties of undefined")
    ELSE Returns(Member(a.body.json.data.configured), {})

\* proxy variant: the promise of isConfigured after the catch block.
isConfiguredSettle(a) ==
    LET r == isConfiguredTry(a)
    IN  IF Awaits(r) THEN [promise |-> Pending, lines |-> {}]
        ELSE IF Threw(r)
        THEN [promise |-> Fulfilled(JsBool(FALSE)),
              lines |-> {"error: Error checking Google Sheets configuration"}]
        ELSE [promise |-> Fulfilled(r.ret), lines |-> r.lines]

\* initializeSheets up to its end.  The direct variant tests the boolean of
\* isConfigured(); the proxy variant tests the promise its async isConfigured()
\* returns, which is truthy, and by calling it has put the status request on
\* the network.  `gate` is what the test saw.
initializeSheetsStart(v, cfg) ==
    IF v = "direct"
    THEN IF ~isConfigured(cfg)
         THEN Started("false", NoRequest, Fulfilled(JsUndefined),
                      {"warn: Google Sheets not configured. Skipping initialization."})
         ELSE Started("true", NoRequest, Fulfilled(JsUndefined),
                      {"log: Google Sheets service initialized"})
    ELSE Started("promise", [method |-> "GET", url |-> <<"/api/sync", "status">>],
                 Fulfilled(JsUndefined),
                 {"log: Google Sheets service initialized"})

(***************************************************************************)
(* The public sync methods and the operations a caller can pass.           *)
(***************************************************************************)
\* sync<Form>(data) up to its first await.  Both variants build the values and
\* then call this.appendToSheet; the proxy variant's class has no such method,
\* so there the call is a TypeError.  A throw inside an async method rejects
\* the promise it returns.
syncMethodStart(v, cfg, form, d) ==
    LET vals == BuildValues(form, d)
    IN  IF Threw(vals)
        THEN Started("none", NoRequest,
                     Rejected("RangeError: Invalid time value"), {})
        ELSE IF v = "direct"
             THEN appendToSheetStart(cfg, SheetName(form), vals.values)
             ELSE Started("none", NoRequest,
                          Rejected("TypeError: this.appendToSheet is not a function"),
                          {})

\* The append operation of variant v, called by itself.
appendStart(v, cfg, target, payload) ==
    IF v = "direct" THEN appendToSheetStart(cfg, target, payload)
    ELSE syncToServerStart(target, payload)

\* Operations: what a caller passes as syncOperation, or calls directly.
OpThrows == [kind |-> "throws"]
OpOpaque == [kind |-> "opaque"]
OpService(form, d) == [kind |-> "service", form |-> form, data |-> d]
OpAppend(target, payload) ==
    [kind |-> "append", target |-> target, payload |-> payload]
OpInitialize == [kind |-> "initialize"]

\* Invoking an operation.
\*   throws   a function that throws when it is invoked
\*   opaque   a function returning a promise that something else settles
\*   service  () => googleSheetsService.sync<Form>(data)
\*   append   the append operation itself: appendToSheet(sheetName, values)
\*            in the direct variant, syncToServer(endpoint, data) in the proxy
\*   initialize  googleSheetsService.initializeSheets()
InvokeOp(v, cfg, op) ==
    CASE op.kind = "throws" ->
            Started("none", NoRequest, ThrewSync("Error: sync threw"), {})
      [] op.kind = "opaque" -> Started("none", NoRequest, Pending, {})
      [] op.kind = "service" -> syncMethodStart(v, cfg, op.form, op.data)
      [] op.kind = "append" -> appendStart(v, cfg, op.target, op.payload)
      [] op.kind = "initialize" -> initializeSheetsStart(v, cfg)

(***************************************************************************)
(* withGoogleSheetsSync.                                                   *)
(***************************************************************************)
\* `await supabaseOperation()` lets the function go on to syncOperation() only
\* with a fulfilled primary promise; a rejected one is rethrown there.
InvokesSync_Always(p) == TRUE

InvokesSync(p) == p.st = "fulfilled"

\* The promise withGoogleSheetsSync returns, once the primary promise p has
\* settled and, if it was invoked, syncOperation() has left sp.
CombinatorOutcome_AwaitsSync(p, sp) ==
    IF p.st = "rejected" THEN Rejected(p.error)
    ELSE IF sp.st = "threw" THEN Rejected(sp.error)
    ELSE IF sp.st = "pending" THEN Pending
    ELSE Fulfilled(p.value)

CombinatorOutcome(p, sp) ==
    IF p.st = "rejected" THEN Rejected(p.error)
    ELSE IF sp.st = "threw" THEN Rejected(sp.error)
    ELSE Fulfilled(p.value)

(***************************************************************************)
(* State machine of the calls.                                             *)
(***************************************************************************)
MaxCalls == 2
Calls == 1 .. MaxCalls

PrimaryResult(id) == [type |-> "object", id |-> id]
PrimaryOutcomes ==
    { Fulfilled(PrimaryResult("row-1")), Fulfilled(PrimaryResult("row-2")),
      Rejected("Error: insert failed") }

NoAnswer == [kind |-> "none"]

FirstTimestamp == JsStr(Stamp("utc", 2024, 1, 1, 0, 0, 0, 0, 0))

\* A submission of `form` with only its required fields.
Sample(form, t) == MakeSubmission(form, t, {}, {}).data

\* What callers pass to withGoogleSheetsSync.
CombinatorOps ==
    { OpThrows, OpOpaque, OpService("Contact", Sample("Contact", FirstTimestamp)) }

\* What callers of the service call directly.
ServiceOps ==
    { OpService(f, Sample(f, t)) :
        f \in Forms, t \in {FirstTimestamp, JsStr(InvalidTimestamp)} }

AppendOps(v) ==
    IF v = "direct"
    THEN { OpAppend(SheetName("Contact"),
                    BuildValues("Contact", Sample("Contact", FirstTimestamp)).values) }
    ELSE { OpAppend("contact", Sample("Contact", FirstTimestamp)) }

Lines(c, lines) == { <<c, l>> : l \in lines }

InitCalls ==
    /\ variant \in Variants
    /\ config \in Configs
    /\ pc = [c \in Calls |-> "idle"]
    /\ primary = [c \in Calls |-> NotStarted]
    /\ syncOp = [c \in Calls |-> [kind |-> "none"]]
    /\ sync = [c \in Calls |-> NotStarted]
    /\ outcome = [c \in Calls |-> NotStarted]
    /\ checked = [c \in Calls |-> "none"]
    /\ net = [c \in Calls |-> NoRequest]
    /\ remote = [c \in Calls |-> NoAnswer]
    /\ probe = [c \in Calls |-> NotStarted]
    /\ log = {}

\* withGoogleSheetsSync(primary, op) is called: supabaseOperation() is invoked
\* and awaited.
CallCombinator(c, op) ==
    /\ pc[c] = "idle"
    /\ pc' = [pc EXCEPT ![c] = "awaitPrimary"]
    /\ primary' = [primary EXCEPT ![c] = Pending]
    /\ syncOp' = [syncOp EXCEPT ![c] = op]
    /\ outcome' = [outcome EXCEPT ![c] = Pending]
    /\ UNCHANGED <<variant, config, sync, checked, net, remote, probe, log>>

\* The primary store operation settles.
PrimarySettles(c, p) ==
    /\ pc[c] = "awaitPrimary"
    /\ primary[c] = Pending
    /\ primary' = [primary EXCEPT ![c] = p]
    /\ UNCHANGED <<variant, config, pc, syncOp, sync, outcome, checked, net,
                   remote, probe, log>>

\* withGoogleSheetsSync resumes after the await and runs to its end in one
\* turn: syncOperation() is invoked, .catch is attached, result is returned.
Resume(c) ==
    /\ pc[c] = "awaitPrimary"
    /\ primary[c].st \in {"fulfilled", "rejected"}
    /\ LET inv == IF InvokesSync(primary[c])
                  THEN InvokeOp(variant, config, syncOp[c])
                  ELSE Started("none", NoRequest, NotStarted, {})
       IN  /\ sync' = [sync EXCEPT ![c] = inv.promise]
           /\ checked' = [checked EXCEPT ![c] = inv.gate]
           /\ net' = [net EXCEPT ![c] = inv.request]
           /\ log' = log \cup Lines(c, inv.lines)
           /\ outcome' = [outcome EXCEPT
                            ![c] = CombinatorOutcome(primary[c], inv.promise)]
    /\ pc' = [pc EXCEPT ![c] = "returned"]
    /\ UNCHANGED <<variant, config, primary, syncOp, remote, probe>>

\* The promise of an opaque sync operation settles.
SyncSettles(c, sp) ==
    /\ syncOp[c].kind = "opaque"
    /\ sync[c] = Pending
    /\ sync' = [sync EXCEPT ![c] = sp]
    /\ UNCHANGED <<variant, config, pc, primary, syncOp, outcome, checked, net,
                   remote, probe, log>>

\* The handler given to .catch runs for a rejected sync promise.
CatchHandler(c) ==
    /\ pc[c] = "returned"
    /\ sync[c].st = "rejected"
    /\ <<c, "error: Background Google Sheets sync failed">> \notin log
    /\ log' = log \cup {<<c, "error: Background Google Sheets sync failed">>}
    /\ UNCHANGED <<variant, config, pc, primary, syncOp, sync, outcome, checked,
                   net, remote, probe>>

\* The fetch of the append request of call c settles, and the append
\* operation runs on to its end or to its next await.
FetchSettles(c, a) ==
    /\ net[c] # NoRequest
    /\ remote[c] = NoAnswer
    /\ sync[c] = Pending
    /\ remote' = [remote EXCEPT ![c] = a]
    /\ sync' = [sync EXCEPT ![c] = AppendSettle(variant, a).promise]
    /\ log' = log \cup Lines(c, AppendSettle(variant, a).lines)
    /\ UNCHANGED <<variant, config, pc, primary, syncOp, outcome, checked, net,
                   probe>>

\* response.json() settles for the append operation of call c that awaits it,
\* and the operation runs to its end.
BodySettles(c, b) ==
    /\ net[c] # NoRequest
    /\ remote[c] # NoAnswer
    /\ remote[c].kind = "response"
    /\ remote[c].body = BodyUnread
    /\ sync[c] = Pending
    /\ LET a == [remote[c] EXCEPT !.body = b]
       IN  /\ remote' = [remote EXCEPT ![c] = a]
           /\ sync' = [sync EXCEPT ![c] = AppendSettle(variant, a).promise]
           /\ log' = log \cup Lines(c, AppendSettle(variant, a).lines)
    /\ UNCHANGED <<variant, config, pc, primary, syncOp, outcome, checked, net,
                   probe>>

\* A public sync method, or the append operation, is called directly.
CallDirect(c, op) ==
    /\ pc[c] = "idle"
    /\ LET inv == InvokeOp(variant, config, op)
       IN  /\ sync' = [sync EXCEPT ![c] = inv.promise]
           /\ checked' = [checked EXCEPT ![c] = inv.gate]
           /\ net' = [net EXCEPT ![c] = inv.request]
           /\ log' = log \cup Lines(c, inv.lines)
    /\ pc' = [pc EXCEPT ![c] = "direct"]
    /\ syncOp' = [syncOp EXCEPT ![c] = op]
    /\ UNCHANGED <<variant, config, primary, outcome, remote, probe>>

CallSyncMethod(c, op) == CallDirect(c, op)
CallAppend(c, op) == CallDirect(c, op)

\* initializeSheets() is called.  In the proxy variant the call of
\* isConfigured() leaves a pending promise that nothing awaits.
CallInitializeSheets(c) ==
    /\ pc[c] = "idle"
    /\ LET inv == InvokeOp(variant, config, OpInitialize)
       IN  /\ sync' = [sync EXCEPT ![c] = inv.promise]
           /\ checked' = [checked EXCEPT ![c] = inv.gate]
           /\ net' = [net EXCEPT ![c] = inv.request]
           /\ log' = log \cup Lines(c, inv.lines)
           /\ probe' = [probe EXCEPT
                          ![c] = IF inv.request = NoRequest THEN NotStarted
                                 ELSE Pending]
    /\ pc' = [pc EXCEPT ![c] = "direct"]
    /\ syncOp' = [syncOp EXCEPT ![c] = OpInitialize]
    /\ UNCHANGED <<variant, config, primary, outcome, remote>>

\* proxy variant: the fetch of /api/sync/status settles for isConfigured().
ProbeFetchSettles(c, a) ==
    /\ probe[c] = Pending
    /\ remote[c] = NoAnswer
    /\ remote' = [remote EXCEPT ![c] = a]
    /\ probe' = [probe EXCEPT ![c] = isConfiguredSettle(a).promise]
    /\ log' = log \cup Lines(c, isConfiguredSettle(a).lines)
    /\ UNCHANGED <<variant, config, pc, primary, syncOp, sync, outcome, checked,
                   net>>

\* proxy variant: response.json() settles for isConfigured().
ProbeBodySettles(c, b) ==
    /\ probe[c] = Pending
    /\ remote[c] # NoAnswer
    /\ remote[c].kind = "response"
    /\ remote[c].body = BodyUnread
    /\ LET a == [remote[c] EXCEPT !.body = b]
       IN  /\ remote' = [remote EXCEPT ![c] = a]
           /\ probe' = [probe EXCEPT ![c] = isConfiguredSettle(a).promise]
           /\ log' = log \cup Lines(c, isConfiguredSettle(a).lines)
    /\ UNCHANGED <<variant, config, pc, primary, syncOp, sync, outcome, checked,
                   net>>

SyncResults == { Fulfilled(JsBool(TRUE)), Fulfilled(JsBool(FALSE)),
                 Rejected("Error: sync rejected") }

RowUnused ==
    /\ submission = [form |-> "none"]
    /\ mapped = NotMapped

(***************************************************************************)
(* The upload routes.  A path is the sequence of its names from the root;  *)
(* a url or a mime type is the sequence of its pieces.                     *)
(***************************************************************************)
Cwd == <<"app">>
\* path.join(process.cwd(), "uploads")
uploadsDir == Cwd \o <<"uploads">>
resumesDir == uploadsDir \o <<"resumes">>

StartsWith(pieces, prefix) ==
    /\ Len(pieces) >= Len(prefix)
    /\ SubSeq(pieces, 1, Len(prefix)) = prefix

UrlPrefix == <<"/", "api", "/", "uploads", "/">>
ImagePrefix == <<"image", "/">>

\* path.basename: the last name of the text, trailing slashes dropped.
basename(pieces) ==
    LET named == { i \in 1 .. Len(pieces) : pieces[i] # "/" }
    IN  IF named = {} THEN ""
        ELSE pieces[CHOOSE i \in named : \A j \in named : j <= i]

\* path.join(dir, name) for a name without slashes: the normalised path.
pathJoin(dir, name) ==
    CASE name = "" \/ name = "." -> dir
      [] name = ".." -> SubSeq(dir, 1, Len(dir) - 1)
      [] OTHER -> dir \o <<name>>

\* path.extname of a file name kept as <<stem, ".", extension>>.
extname(pieces) ==
    IF Len(pieces) >= 3 /\ pieces[Len(pieces) - 1] = "."
    THEN "." \o pieces[Len(pieces)] ELSE ""

Exists(d, p) == p \in d.files \/ p \in d.dirs

Reply(status, body) == [status |-> status, body |-> body]

\* 5 * 1024 * 1024
FileSizeLimit == 5242880

NoFile == [present |-> FALSE]
File(name, mime, size) ==
    [present |-> TRUE, originalname |-> name, mimetype |-> mime, size |-> size]

\* fileFilter: cb(null, true) for an image mime type, cb(null, false) otherwise.
fileFilter(file) ==
    /\ file.present
    /\ file.mimetype # <<>>
    /\ StartsWith(file.mimetype, ImagePrefix)

\* storage.filename: `image-${uniqueSuffix}${ext}`; n stands for the suffix.
ImageName(n, file) == "image-" \o ToString(n) \o extname(file.originalname)
StoredPath(n, file) == uploadsDir \o <<ImageName(n, file)>>

\* The uploadImage handler, given req.file (NoFile when multer set none).
uploadImage(n, file) ==
    IF ~file.present
    THEN Reply(400, [success |-> FALSE,
                     error |-> "No valid image file provided. Please upload a "
                                 \o "valid image file (PNG, JPG, GIF, etc.)"])
    ELSE IF ~StartsWith(file.mimetype, ImagePrefix)
         THEN Reply(400, [success |-> FALSE,
                          error |-> "Only image files are allowed"])
         ELSE Reply(200, [success |-> TRUE,
                          data |-> [url |-> UrlPrefix \o <<ImageName(n, file)>>,
                                    filename |-> file.originalname,
                                    size |-> file.size,
                                    mimetype |-> file.mimetype]])

\* The route is registered as (uploadMiddleware, uploadImage) and the app
\* registers no error-handling middleware: an error multer passes to next()
\* skips uploadImage and is answered by Express's default handler, with
\* status 500 (a MulterError carries no status) and a text body.
DefaultErrorReply(code) == Reply(500, [text |-> "MulterError: " \o code])

\* fs.existsSync(filePath) decides whether deleteImage unlinks.
ShouldUnlink_Always(d, filePath) == TRUE

ShouldUnlink(d, filePath) == Exists(d, filePath)

DeleteOk == Reply(200, [success |-> TRUE, message |-> "Image deleted successfully"])
DeleteFailed == Reply(500, [success |-> FALSE, error |-> "Failed to delete image"])

Deleted(d, reply, tested, unlinked) ==
    [disk |-> d, reply |-> reply, tested |-> tested, unlinked |-> unlinked]

\* The deleteImage handler on disk d for body { url }: the disk afterwards,
\* the reply, the paths handed to fs.existsSync / fs.unlinkSync, and the paths
\* unlinked.  fs.unlinkSync throws for a directory and for a missing path, and
\* calling startsWith on a url that is no string throws; the catch block
\* answers 500.
deleteImage(d, url) ==
    IF ~Truthy(url) THEN Deleted(d, DeleteOk, {}, {})
    ELSE IF url.type # "string" THEN Deleted(d, DeleteFailed, {}, {})
    ELSE IF ~StartsWith(url.pieces, UrlPrefix) THEN Deleted(d, DeleteOk, {}, {})
    ELSE LET filename == basename(url.pieces)
             filePath == pathJoin(uploadsDir, filename)
         IN  IF ~ShouldUnlink(d, filePath)
             THEN Deleted(d, DeleteOk, {filePath}, {})
             ELSE IF filePath \in d.files
                  THEN Deleted([d EXCEPT !.files = @ \ {filePath}], DeleteOk,
                               {filePath}, {filePath})
                  ELSE Deleted(d, DeleteFailed, {filePath}, {})

(***************************************************************************)
(* State machine of the upload routes.                                     *)
(***************************************************************************)
MaxUploads == 2

Png == <<"image", "/", "png">>
UploadFiles ==
    { NoFile,
      File(<<"photo", ".", "png">>, Png, 2048),
      File(<<"poster", ".", "png">>, Png, FileSizeLimit + 1),
      File(<<"notes", ".", "txt">>, <<"text", "/", "plain">>, 2048),
      File(<<"scan", ".", "pdf">>, <<"application", "/", "pdf">>, FileSizeLimit + 1),
      File(<<"blob">>, <<>>, 2048) }

DeleteUrls ==
    { JsUndefined, JsText(<<>>), JsNum(42),
      JsText(<<"/", "other", "/", "photo.png">>),
      JsText(UrlPrefix),
      JsText(UrlPrefix \o <<"..">>),
      JsText(UrlPrefix \o <<".">>),
      JsText(UrlPrefix \o <<"resumes">>),
      JsText(UrlPrefix \o <<"..", "/", "package.json">>),
      JsText(UrlPrefix \o <<"missing.png">>) }
    \cup { JsText(UrlPrefix \o <<"image-" \o ToString(n) \o ".png">>) :
             n \in 1 .. MaxUploads }

NoUpload == [st |-> "none"]
NoDelete == [url |-> JsUndefined, made |-> FALSE]

InitUpload ==
    /\ \E withResumes \in BOOLEAN :
          disk = [files |-> {Cwd \o <<"package.json">>}
                              \cup (IF withResumes
                                    THEN {resumesDir \o <<"resume-1.pdf">>} ELSE {}),
                  dirs |-> {Cwd, uploadsDir}
                              \cup (IF withResumes THEN {resumesDir} ELSE {})]
    /\ nextId = 1
    /\ uploads = [n \in 1 .. MaxUploads |-> NoUpload]
    /\ lastDelete = NoDelete
    /\ removed = {}

\* POST /api/upload/image arrives and multer reads the body: fileFilter
\* decides, and an accepted file is written to the uploads directory (up to
\* the size limit).
MulterReceives(file) ==
    /\ nextId <= MaxUploads
    /\ LET accepted == fileFilter(file)
       IN  /\ uploads' = [uploads EXCEPT
                            ![nextId] = [st |-> "receiving", file |-> file,
                                         accepted |-> accepted]]
           /\ disk' = IF accepted
                      THEN [disk EXCEPT !.files = @ \cup {StoredPath(nextId, file)}]
                      ELSE disk
    /\ nextId' = nextId + 1
    /\ UNCHANGED <<lastDelete, removed>>

\* multer finishes request n.  A file over the limit: multer removes what it
\* stored and passes LIMIT_FILE_SIZE to next().  Otherwise uploadImage runs,
\* with req.file set only for an accepted file.
RequestCompletes(n) ==
    /\ uploads[n].st = "receiving"
    /\ LET u == uploads[n]
           tooLarge == u.accepted /\ u.file.size > FileSizeLimit
       IN  /\ disk' = IF tooLarge
                      THEN [disk EXCEPT !.files = @ \ {StoredPath(n, u.file)}]
                      ELSE disk
           /\ uploads' = [uploads EXCEPT
                            ![n] = [st |-> "done", file |-> u.file,
                                    accepted |-> u.accepted,
                                    reply |-> IF tooLarge
                                              THEN DefaultErrorReply("File too large")
                                              ELSE uploadImage(n,
                                                     IF u.accepted THEN u.file
                                                     ELSE NoFile)]]
    /\ UNCHANGED <<nextId, lastDelete, removed>>

\* DELETE /api/upload/image with body { url }.
DeleteRequest(url) ==
    LET r == deleteImage(disk, url)
    IN  /\ disk' = r.disk
        /\ lastDelete' = [url |-> url, made |-> TRUE, before |-> disk,
                          after |-> r.disk, reply |-> r.reply,
                          tested |-> r.tested]
        /\ removed' = removed \cup r.unlinked
        /\ UNCHANGED <<nextId, uploads>>

(***************************************************************************)
(* The specifications.                                                     *)
(***************************************************************************)
CallsUnused ==
    /\ variant = "direct"
    /\ config = [spreadsheetId |-> "", apiKey |-> ""]
    /\ pc = [c \in Calls |-> "idle"]
    /\ primary = [c \in Calls |-> NotStarted]
    /\ syncOp = [c \in Calls |-> [kind |-> "none"]]
    /\ sync = [c \in Calls |-> NotStarted]
    /\ outcome = [c \in Calls |-> NotStarted]
    /\ checked = [c \in Calls |-> "none"]
    /\ net = [c \in Calls |-> NoRequest]
    /\ remote = [c \in Calls |-> NoAnswer]
    /\ probe = [c \in Calls |-> NotStarted]
    /\ log = {}

UploadUnused ==
    /\ disk = [files |-> {}, dirs |-> {Cwd, uploadsDir}]
    /\ nextId = 1
    /\ uploads = [n \in 1 .. MaxUploads |-> NoUpload]
    /\ lastDelete = NoDelete
    /\ removed = {}

NextRow == MapSubmission /\ UNCHANGED <<syncVars, uploadVars>>
InitSpecRow == InitRow /\ CallsUnused /\ UploadUnused
SpecRow == InitSpecRow /\ [][NextRow]_vars


NextCombinator ==
    \/ \E c \in Calls, op \in CombinatorOps :
          CallCombinator(c, op) /\ UNCHANGED <<rowVars, uploadVars>>
    \/ \E c \in Calls, p \in PrimaryOutcomes :
          PrimarySettles(c, p) /\ UNCHANGED <<rowVars, uploadVars>>
    \/ \E c \in Calls : Resume(c) /\ UNCHANGED <<rowVars, uploadVars>>
    \/ \E c \in Calls, sp \in SyncResults :
          SyncSettles(c, sp) /\ UNCHANGED <<rowVars, uploadVars>>
    \/ \E c \in Calls, a \in FetchResults(variant) :
          FetchSettles(c, a) /\ UNCHANGED <<rowVars, uploadVars>>
    \/ \E c \in Calls, b \in Bodies(variant) :
          BodySettles(c, b) /\ UNCHANGED <<rowVars, uploadVars>>
    \/ \E c \in Calls : CatchHandler(c) /\ UNCHANGED <<rowVars, uploadVars>>
InitSpecCalls == InitCalls /\ RowUnused /\ UploadUnused
SpecCombinator == InitSpecCalls /\ [][NextCombinator]_vars


NextService ==
    \/ \E c \in Calls, op \in ServiceOps :
          CallSyncMethod(c, op) /\ UNCHANGED <<rowVars, uploadVars>>
    \/ \E c \in Calls, op \in AppendOps(variant) :
          CallAppend(c, op) /\ UNCHANGED <<rowVars, uploadVars>>
    \/ \E c \in Calls : CallInitializeSheets(c) /\ UNCHANGED <<rowVars, uploadVars>>
    \/ \E c \in Calls, a \in FetchResults(variant) :
          FetchSettles(c, a) /\ UNCHANGED <<rowVars, uploadVars>>
    \/ \E c \in Calls, b \in Bodies(variant) :
          BodySettles(c, b) /\ UNCHANGED <<rowVars, uploadVars>>
    \/ \E c \in Calls, a \in FetchResults("proxy") :
          ProbeFetchSettles(c, a) /\ UNCHANGED <<rowVars, uploadVars>>
    \/ \E c \in Calls, b \in StatusBodies :
          ProbeBodySettles(c, b) /\ UNCHANGED <<rowVars, uploadVars>>
SpecService == InitSpecCalls /\ [][NextService]_vars


NextUpload ==
    \/ \E file \in UploadFiles :
          MulterReceives(file) /\ UNCHANGED <<rowVars, syncVars>>
    \/ \E n \in 1 .. MaxUploads :
          RequestCompletes(n) /\ UNCHANGED <<rowVars, syncVars>>
    \/ \E url \in DeleteUrls :
          DeleteRequest(url) /\ UNCHANGED <<rowVars, syncVars>>
InitSpecUpload == InitUpload /\ RowUnused /\ CallsUnused
SpecUpload == InitSpecUpload /\ [][NextUpload]_vars

(***************************************************************************)
(* Properties.                                                             *)
(***************************************************************************)

\* C1: when the primary operation completed with result r and the sync
\* operation failed, by a rejected promise or by throwing when invoked, the
\* caller of withGoogleSheetsSync gets exactly r.
C1_SyncFailureNeverReachesCaller ==
    \A c \in Calls :
        ( /\ pc[c] = "returned"
          /\ primary[c].st = "fulfilled"
          /\ sync[c].st \in {"rejected", "threw"} )
        => outcome[c] = Fulfilled(primary[c].value)

\* C2: the promise of a public sync method is never rejected, and it is
\* fulfilled with a boolean.
C2_SyncMethodsResolveToBoolean ==
    \A c \in Calls :
        syncOp[c].kind = "service" =>
            /\ sync[c].st \notin {"rejected", "threw"}
            /\ sync[c].st = "fulfilled" => sync[c].value.type = "boolean"

\* C3: once withGoogleSheetsSync has started a sync operation that returned a
\* promise, the caller has the primary result, whatever the state of that
\* promise: pending, fulfilled or rejected.
C3_ReturnsWithoutWaitingForSync ==
    \A c \in Calls :
        ( /\ pc[c] = "returned"
          /\ sync[c].st \in {"pending", "fulfilled", "rejected"} )
        => outcome[c] = Fulfilled(primary[c].value)

\* C3, its case: the caller holds the primary result while the sync promise
\* is still pending.
C3_Witness ==
    \E c \in Calls :
        /\ pc[c] = "returned"
        /\ sync[c] = Pending
        /\ outcome[c] = Fulfilled(primary[c].value)

\* C4: the append operation puts a request on the network only after a
\* configuration check that returned true, and an unconfigured client
\* answers false without a request.
C4_AppendIsGatedByConfiguration ==
    \A c \in Calls :
        syncOp[c].kind = "append" =>
            /\ net[c] # NoRequest => checked[c] = "true"
            /\ (variant = "direct" /\ ~isConfigured(config)) =>
                  (net[c] = NoRequest /\ sync[c] = Fulfilled(JsBool(FALSE)))

\* An answer that is a failure for the append operation of variant v: a
\* network exception, a status outside 2xx, or a body that fails to parse
\* where the operation parses it (the direct variant does not read the body
\* of a 2xx answer).
FailureAnswer(v, a) ==
    \/ a.kind = "networkError"
    \/ ~ResponseOk(a)
    \/ (v = "proxy" /\ a.body.parse = "fail")

\* The answer is complete: nothing of it is left for the operation to read.
AnswerRead(a) == a.kind = "networkError" \/ a.body.parse # "unread"

\* C5: after a 401, another non-success status, or a network exception, the
\* append operation's promise is never rejected and is fulfilled with nothing
\* but false; once the answer is complete it is fulfilled with false.
C5_AppendFailuresResolveFalse ==
    \A c \in Calls :
        ( /\ syncOp[c].kind \in {"append", "service"}
          /\ remote[c] # NoAnswer
          /\ FailureAnswer(variant, remote[c]) )
        => /\ sync[c] \in {Pending, Fulfilled(JsBool(FALSE))}
           /\ AnswerRead(remote[c]) => sync[c] = Fulfilled(JsBool(FALSE))

\* C5, its case: an append request was answered 401 and the operation gave false.
C5_Witness ==
    \E c \in Calls :
        /\ remote[c] # NoAnswer
        /\ remote[c].kind = "response"
        /\ remote[c].status = 401
        /\ AnswerRead(remote[c])
        /\ sync[c] = Fulfilled(JsBool(FALSE))

\* The documented column layouts.
Columns(form) ==
    CASE form = "Contact" ->
            <<"timestamp", "name", "email", "phone", "company", "message">>
      [] form = "JobApplication" ->
            <<"timestamp", "full_name", "email", "phone", "position",
              "experience", "cover_letter", "resume_url", "status">>
      [] form = "GetStartedRequest" ->
            <<"timestamp", "first_name", "last_name", "email", "company",
              "phone", "job_title", "message">>
      [] form = "ResumeUpload" ->
            <<"timestamp", "full_name", "email", "phone", "location",
              "position_interested", "experience_level", "skills",
              "cover_letter", "linkedin_url", "portfolio_url", "resume_url">>
      [] form = "NewsletterSubscription" -> <<"timestamp", "email">>

ColumnCount(form) ==
    CASE form = "Contact" -> 6
      [] form = "JobApplication" -> 9
      [] form = "GetStartedRequest" -> 8
      [] form = "ResumeUpload" -> 12
      [] form = "NewsletterSubscription" -> 2

\* The ISO-8601 instant each timestamp text of ValidTimestamps denotes.
CanonicalText(text) ==
    CASE text = "2024-01-01T00:00:00Z" -> "2024-01-01T00:00:00.000Z"
      [] text = "2024-02-29" -> "2024-02-29T00:00:00.000Z"
      [] text = "2023-12-31T23:59:59.999Z" -> "2023-12-31T23:59:59.999Z"
      [] text = "2024-03-01T00:30:00+05:30" -> "2024-02-29T19:00:00.000Z"
      [] text = "2023-12-31T20:00:00-08:00" -> "2024-01-01T04:00:00.000Z"
      [] text = "9999-12-31T23:59:59-01:00" -> "+010000-01-01T00:59:59.000Z"
      [] OTHER -> "no such instant"

BuiltRow == mapped # NotMapped /\ ~Threw(mapped)

\* C6: the row a sync method builds has the documented number of cells in
\* the documented order, its first cell is the normalized timestamp, and a
\* field that is absent is the empty string in its place; every cell is a
\* string.
C6_RowMatchesColumnLayout ==
    BuiltRow =>
        LET form == submission.form
            d == submission.data
            row == mapped.values[1]
            cols == Columns(form)
        IN  /\ Len(mapped.values) = 1
            /\ Len(row) = ColumnCount(form)
            /\ Len(cols) = ColumnCount(form)
            /\ row[1] = JsStr(CanonicalText(TimestampText(d[TimestampField(form)].value)))
            /\ \A i \in 2 .. Len(cols) :
                  /\ row[i].type = "string"
                  /\ row[i] = IF d[cols[i]].type = "undefined"
                              THEN JsStr("") ELSE d[cols[i]]

\* C6, its case: a resume upload with absent optional fields was mapped to
\* twelve cells with "" where the field is absent.
C6_Witness ==
    /\ BuiltRow
    /\ submission.form = "ResumeUpload"
    /\ submission.data.phone = JsUndefined
    /\ submission.data.skills # JsUndefined
    /\ Len(mapped.values[1]) = 12
    /\ mapped.values[1][4] = JsStr("")

\* C7: an upload with a mime type that is no image, or with a file over the
\* size limit, is answered with a 4xx status and a { success: false, error }
\* body, and none of its data stays in the uploads directory.
C7_RejectedUploadGetsClientError ==
    \A n \in 1 .. MaxUploads :
        ( /\ uploads[n].st = "done"
          /\ uploads[n].file.present
          /\ \/ ~StartsWith(uploads[n].file.mimetype, ImagePrefix)
             \/ uploads[n].file.size > FileSizeLimit )
        => /\ uploads[n].reply.status \in 400 .. 499
           /\ "success" \in DOMAIN uploads[n].reply.body
           /\ "error" \in DOMAIN uploads[n].reply.body
           /\ StoredPath(n, uploads[n].file) \notin disk.files

StrictlyInside(p, dir) ==
    /\ Len(p) > Len(dir)
    /\ SubSeq(p, 1, Len(dir)) = dir

\* C8: every path deleteImage tests or unlinks lies strictly inside the
\* uploads directory.
C8_DeleteStaysInsideUploads ==
    lastDelete.made =>
        \A p \in lastDelete.tested : StrictlyInside(p, uploadsDir)

\* C9: a delete request whose url names a path that does not exist (never
\* stored, or deleted before) is answered { success: true } and leaves the
\* stored files as they were; and on any disk, deleting a url a second time
\* gives the same files and the same reply as deleting it once.
C9_DeleteIsIdempotent ==
    /\ ( /\ lastDelete.made
         /\ lastDelete.tested # {}
         /\ \A p \in lastDelete.tested : ~Exists(lastDelete.before, p) )
       => /\ lastDelete.reply = DeleteOk
          /\ lastDelete.after = lastDelete.before
    /\ \A url \in DeleteUrls :
          LET once == deleteImage(disk, url)
              twice == deleteImage(once.disk, url)
          IN  /\ twice.disk = once.disk
              /\ twice.reply = once.reply

\* C9, its case: the url of a file deleted before was deleted again, with
\* the success reply and no change.
C9_Witness ==
    /\ lastDelete.made
    /\ lastDelete.tested # {}
    /\ lastDelete.tested \subseteq removed
    /\ \A p \in lastDelete.tested : ~Exists(lastDelete.before, p)
    /\ lastDelete.reply = DeleteOk
    /\ lastDelete.after = lastDelete.before

\* C10: the sync operation is invoked, and an append request made, only for
\* a call whose primary operation was fulfilled; a rejected primary operation
\* rejects withGoogleSheetsSync with the same error.
C10_SyncOnlyAfterPrimarySuccess ==
    \A c \in Calls :
        /\ (sync[c].st # "none" \/ net[c] # NoRequest)
              => primary[c].st = "fulfilled"
        /\ (pc[c] = "returned" /\ primary[c].st = "rejected")
              => outcome[c] = Rejected(primary[c].error)

\* C10, its case: a primary operation failed, the caller got its error, and
\* no sync operation was invoked.
C10_Witness ==
    \E c \in Calls :
        /\ pc[c] = "returned"
        /\ primary[c].st = "rejected"
        /\ outcome[c] = Rejected(primary[c].error)
        /\ sync[c] = NotStarted
        /\ net[c] = NoRequest

====
